---- MODULE Spec2Model ----
(***************************************************************************)
(* A model of resume_matcher_app.py: the Streamlit session (session state, *)
(* the two uploaders, the run-matching loop, the result rendering), the    *)
(* text-generation wrapper call_gpt_with_fallback, the name cascade and    *)
(* the score parse.  Texts are TLA+ strings and the regular expressions    *)
(* are evaluated character by character.                                   *)
(*                                                                         *)
(* Two characters of the source are written in ASCII here: the warning     *)
(* sign of the failure marker (U+26A0 U+FE0F) is "(!)", a run of           *)
(* characters that are neither word characters, digits nor white space,    *)
(* as the sign is; the en dash of the "Candidate Name" separator class is  *)
(* not in the model's alphabet.                                            *)
(*                                                                         *)
(* Left out: the follow-up buttons' handler generate_followup (it changes  *)
(* no session state), the prompts' wording and trim (the service's reply   *)
(* does not depend on the prompt here), the summary's sort and the Excel   *)
(* export, and a user interaction that interrupts a running script.        *)
(***************************************************************************)
EXTENDS Integers, Sequences, FiniteSets, TLC

VARIABLES
    HAS_TEXTRACT,       \* module constant of the build (line 14-18)
    results,            \* st.session_state["results"]
    processed_resumes,  \* st.session_state["processed_resumes"]
    summary,            \* st.session_state["summary"]
    jd_text,            \* st.session_state["jd_text"]
    run_clicked,        \* st.session_state["run_clicked"]: "None" or "True"
    jd_file,            \* value of the uploader "jd_uploader"
    resume_files,       \* value of the uploader "resume_uploader"
    pc,                 \* where the script run is
    idx,                \* position of the loop over resume_files
    cur,                \* the loop body's locals
    gpt,                \* the running call of call_gpt_with_fallback
    screen,             \* what the last script run rendered
    origin,             \* history: the file name each record was built from
    calls,              \* history: wrapper calls made per file name
    raw,                \* score parse alone: the raw model text
    parsed              \* score parse alone: its result

vars == <<HAS_TEXTRACT, results, processed_resumes, summary, jd_text,
          run_clicked, jd_file, resume_files, pc, idx, cur, gpt, screen,
          origin, calls, raw, parsed>>

appVars == <<HAS_TEXTRACT, results, processed_resumes, summary, jd_text,
             run_clicked, jd_file, resume_files, pc, idx, cur, gpt, screen,
             origin, calls>>

-----------------------------------------------------------------------------
(* Characters and strings                                                  *)

None == "<None>"

CharAt(s, i) == SubSeq(s, i, i)

Digits == {"0", "1", "2", "3", "4", "5", "6", "7", "8", "9"}

UpperAlphabet == "ABCDEFGHIJKLMNOPQRSTUVWXYZ"
LowerAlphabet == "abcdefghijklmnopqrstuvwxyz"

UpperChars == {CharAt(UpperAlphabet, i) : i \in 1..26}
LowerChars == {CharAt(LowerAlphabet, i) : i \in 1..26}

LowerMap ==
    [c \in UpperChars |->
        CharAt(LowerAlphabet, CHOOSE i \in 1..26 : CharAt(UpperAlphabet, i) = c)]
UpperMap ==
    [c \in LowerChars |->
        CharAt(UpperAlphabet, CHOOSE i \in 1..26 : CharAt(LowerAlphabet, i) = c)]

SpaceChars == {" ", "\n", "\t", "\r"}
AlphaChars == UpperChars \cup LowerChars

IsDigit(c) == c \in Digits
IsSpace(c) == c \in SpaceChars
IsAlpha(c) == c \in AlphaChars
IsWordChar(c) == IsAlpha(c) \/ IsDigit(c) \/ c = "_"

LowerChar(c) == IF c \in UpperChars THEN LowerMap[c] ELSE c
UpperChar(c) == IF c \in LowerChars THEN UpperMap[c] ELSE c

RECURSIVE lower(_)
lower(s) ==
    IF s = "" THEN ""
    ELSE LowerChar(CharAt(s, 1)) \o lower(SubSeq(s, 2, Len(s)))

\* s[i:i+len(w)] == w, ignoring case when ci
MatchesAt(s, i, w, ci) ==
    /\ i >= 1
    /\ i + Len(w) - 1 <= Len(s)
    /\ IF ci THEN lower(SubSeq(s, i, i + Len(w) - 1)) = lower(w)
             ELSE SubSeq(s, i, i + Len(w) - 1) = w

\* w in s
Contains(s, w) == \E i \in 1..(Len(s) - Len(w) + 1) : MatchesAt(s, i, w, FALSE)

\* \b at the gap before position i
WordBoundary(s, i) ==
    LET before == i > 1 /\ IsWordChar(CharAt(s, i - 1))
        after  == i <= Len(s) /\ IsWordChar(CharAt(s, i))
    IN  before # after

\* the length of the longest run of characters of s from i on that are in C
Run(s, i, C) ==
    IF i > Len(s) THEN 0
    ELSE CHOOSE n \in 0..(Len(s) - i + 1) :
            /\ \A j \in 0..(n - 1) : CharAt(s, i + j) \in C
            /\ i + n > Len(s) \/ CharAt(s, i + n) \notin C

SpaceRun(s, i) == Run(s, i, SpaceChars)

DigitVal(c) == CHOOSE v \in 0..9 : CharAt("0123456789", v + 1) = c

\* int(s) of a string of decimal digits
RECURSIVE int(_)
int(s) ==
    IF s = "" THEN 0
    ELSE 10 * int(SubSeq(s, 1, Len(s) - 1)) + DigitVal(CharAt(s, Len(s)))

Least(S) == CHOOSE a \in S : \A b \in S : a <= b
Greatest(S) == CHOOSE a \in S : \A b \in S : a >= b
LeastOr(S, default) == IF S = {} THEN default ELSE Least(S)

Min(a, b) == IF a < b THEN a ELSE b
Max(a, b) == IF a > b THEN a ELSE b

-----------------------------------------------------------------------------
(* SCORE_RE = (?i)\bscore\b[^0-9]{0,12}(\d{1,3})\s*%   and the score parse  *)

ScoreWindow == 12
ScoreDigits == 3

NotDigit(c) == ~IsDigit(c)

\* variant: the pattern without its (?i) flag
ScoreWordAtCased(s, p) ==
    /\ WordBoundary(s, p)
    /\ MatchesAt(s, p, "score", FALSE)
    /\ WordBoundary(s, p + 5)

\* \bscore\b at p, ignoring case
ScoreWordAt(s, p) ==
    /\ WordBoundary(s, p)
    /\ MatchesAt(s, p, "score", TRUE)
    /\ WordBoundary(s, p + 5)

\* The rest of the pattern matches after the word at p, with k characters in
\* the window and d digits.
ScoreMatch(s, p, k, d) ==
    /\ p + 5 + k + d - 1 <= Len(s)
    /\ \A j \in 0..(k - 1) : NotDigit(CharAt(s, p + 5 + j))
    /\ \A j \in 0..(d - 1) : IsDigit(CharAt(s, p + 5 + k + j))
    /\ LET q == p + 5 + k + d + SpaceRun(s, p + 5 + k + d)
       IN  q <= Len(s) /\ CharAt(s, q) = "%"

ScoreMatches(s, p) ==
    IF ~ScoreWordAt(s, p) THEN {}
    ELSE {kd \in (0..ScoreWindow) \X (1..ScoreDigits) :
            ScoreMatch(s, p, kd[1], kd[2])}

\* the match the greedy quantifiers settle on: the longest window, then the
\* most digits
GreedyScoreMatch(ms) ==
    CHOOSE m \in ms : \A n \in ms :
        \/ m[1] > n[1]
        \/ m[1] = n[1] /\ m[2] >= n[2]

ScoreGroup(s, p, kd) == SubSeq(s, p + 5 + kd[1], p + 5 + kd[1] + kd[2] - 1)

ScoreGroupAt(s, p) == ScoreGroup(s, p, GreedyScoreMatch(ScoreMatches(s, p)))

LeftmostScoreGroup(s, starts) ==
    IF starts = {} THEN None ELSE ScoreGroupAt(s, Least(starts))

\* SCORE_RE.search(s): group 1 of the leftmost match, or None
SCORE_RE_search(s) ==
    LeftmostScoreGroup(s, {p \in 1..Len(s) : ScoreMatches(s, p) # {}})

\* variant: max(0, int(m.group(1))), the ceiling left out
ClampFloorOnly(m) == IF m # None THEN Max(0, int(m)) ELSE 0

\* max(0, min(100, int(m.group(1)))) if m else 0
Clamp(m) == IF m # None THEN Max(0, Min(100, int(m))) ELSE 0

\* text or ""
OrEmpty(text) == IF text = None THEN "" ELSE text

\* m = SCORE_RE.search(result or ""); score = ... if m else 0
ScoreOf(result) == Clamp(SCORE_RE_search(OrEmpty(result)))

RejectBelow == 50
CautionBelow == 70

\* variant: the thresholds compared with <=
TierOfInclusive(score) ==
    IF score <= RejectBelow THEN "Reject"
    ELSE IF score <= CautionBelow THEN "Caution"
    ELSE "Strong"

\* the banner the rendering loop shows for a score
TierOf(score) ==
    IF score < RejectBelow THEN "Reject"
    ELSE IF score < CautionBelow THEN "Caution"
    ELSE "Strong"

-----------------------------------------------------------------------------
(* str.strip, str.split, str.title                                         *)

StripTo(s, keep) ==
    IF keep = {} THEN "" ELSE SubSeq(s, Least(keep), Greatest(keep))

strip(s) == StripTo(s, {i \in 1..Len(s) : ~IsSpace(CharAt(s, i))})

\* len(s.split()): the number of maximal runs of non-space characters
WordCount(s) ==
    Cardinality({i \in 1..Len(s) :
        /\ ~IsSpace(CharAt(s, i))
        /\ i = 1 \/ IsSpace(CharAt(s, i - 1))})

\* s.title(): a letter that follows a letter is lowered, any other is raised
RECURSIVE TitleFrom(_, _)
TitleFrom(s, i) ==
    IF i > Len(s) THEN ""
    ELSE LET c == CharAt(s, i)
             t == IF ~IsAlpha(c) THEN c
                  ELSE IF i > 1 /\ IsAlpha(CharAt(s, i - 1)) THEN LowerChar(c)
                  ELSE UpperChar(c)
         IN  t \o TitleFrom(s, i + 1)

title(s) == TitleFrom(s, 1)

\* the position of the first "\n" at or after i, or Len(s) + 1
LineEnd(s, i) == LeastOr({j \in i..Len(s) : CharAt(s, j) = "\n"}, Len(s) + 1)

-----------------------------------------------------------------------------
(* EMAIL_RE = [A-Za-z0-9._%+-]+@[A-Za-z0-9.-]+\.[A-Za-z]{2,}               *)

LocalChars == AlphaChars \cup Digits \cup {".", "_", "%", "+", "-"}
DomainChars == AlphaChars \cup Digits \cup {".", "-"}

\* EmailEnds(s, p): the matches of EMAIL_RE that start at p, each <<m, end>> for
\* a domain part of m characters before the last dot; the greedy one is the
\* match with the longest domain part
EmailEndsAfter(s, a) ==
    {<<m, a + 1 + m + Run(s, a + 2 + m, AlphaChars)>> :
        m \in {n \in 1..Run(s, a + 1, DomainChars) :
                  /\ a + 1 + n <= Len(s)
                  /\ CharAt(s, a + 1 + n) = "."
                  /\ Run(s, a + 2 + n, AlphaChars) >= 2}}

EmailEndsLocal(s, l, a) ==
    IF l = 0 \/ a > Len(s) \/ CharAt(s, a) # "@" THEN {} ELSE EmailEndsAfter(s, a)

EmailEnds(s, p) ==
    EmailEndsLocal(s, Run(s, p, LocalChars), p + Run(s, p, LocalChars))

LongestDomain(es) == CHOOSE x \in es : \A y \in es : x[1] >= y[1]

EmailAt(t, p) == SubSeq(t, p, LongestDomain(EmailEnds(t, p))[2])

LeftmostEmail(t, starts) ==
    IF starts = {} THEN "Not found" ELSE EmailAt(t, Least(starts))

\* EMAIL_RE.search(t): group 0 of the leftmost match
EmailSearch(t) == LeftmostEmail(t, {p \in 1..Len(t) : EmailEnds(t, p) # {}})

\* m.group(0) if m else "Not found"
extract_email(text) == EmailSearch(OrEmpty(text))

-----------------------------------------------------------------------------
(* The name cascade                                                        *)

\* [\t:-]  (the en dash of the source's class is not in the alphabet)
NameSepChars == {"\t", ":", "-"}

\* Where the group (.+) of "(?i)Candidate Name\s*[\t:-]*\s*(.+)" starts, for
\* the match that starts at p: the greedy choice among the ways to split the
\* white space and the separators that leave a character for the group.
TableGroupStarts(s, p) ==
    LET p0 == p + Len("Candidate Name")
    IN  {abc \in (0..SpaceRun(s, p0)) \X (0..Len(s)) \X (0..Len(s)) :
            /\ abc[2] <= Run(s, p0 + abc[1], NameSepChars)
            /\ abc[3] <= SpaceRun(s, p0 + abc[1] + abc[2])
            /\ p0 + abc[1] + abc[2] + abc[3] <= Len(s)
            /\ CharAt(s, p0 + abc[1] + abc[2] + abc[3]) # "\n"}

TableMatchAt(s, p) ==
    /\ MatchesAt(s, p, "Candidate Name", TRUE)
    /\ TableGroupStarts(s, p) # {}

GreedyTableSplit(gs) ==
    CHOOSE m \in gs : \A n \in gs :
        \/ m[1] > n[1]
        \/ m[1] = n[1] /\ m[2] > n[2]
        \/ m[1] = n[1] /\ m[2] = n[2] /\ m[3] >= n[3]

TableGroupFrom(s, q) == <<q, LineEnd(s, q) - 1>>

TableGroupSplit(s, p, abc) ==
    TableGroupFrom(s, p + Len("Candidate Name") + abc[1] + abc[2] + abc[3])

\* <<start, end>> of group 1 of the match at p
TableGroup(s, p) == TableGroupSplit(s, p, GreedyTableSplit(TableGroupStarts(s, p)))

\* re.findall from position i on: the groups of the non-overlapping matches
RECURSIVE TableFindAll(_, _)
RECURSIVE TableFindFrom(_, _)
RECURSIVE TableFindNext(_, _)

TableFindNext(s, g) == <<SubSeq(s, g[1], g[2])>> \o TableFindAll(s, g[2] + 1)

TableFindFrom(s, starts) ==
    IF starts = {} THEN <<>> ELSE TableFindNext(s, TableGroup(s, Least(starts)))

TableFindAll(s, i) == TableFindFrom(s, {p \in i..Len(s) : TableMatchAt(s, p)})

MinNameWords == 2
MaxNameWords == 4

\* 2 <= len(name.split()) <= 4
NameLike(n) == MinNameWords <= n /\ n <= MaxNameWords

FirstNameOf(matches, good) ==
    IF good = {} THEN None ELSE title(strip(matches[Least(good)]))

\* the first match that passes the test, title-cased
FirstNameLike(matches) ==
    FirstNameOf(matches,
                {i \in 1..Len(matches) : NameLike(WordCount(strip(matches[i])))})

extract_candidate_name_from_table(text) ==
    FirstNameLike(TableFindAll(OrEmpty(text), 1))

\* [A-Z][a-z]+ under (?i): a run of letters, two at least; its length or 0
AtLeastTwo(n) == IF n >= 2 THEN n ELSE 0

NameWord(s, q) == AtLeastTwo(Run(s, q, AlphaChars))

\* \s+[A-Z][a-z]+ at q: the length of the white space and the word, or 0
SpaceThenWord(w, n) == IF w >= 1 /\ n > 0 THEN w + n ELSE 0

NextNameWord(s, q) ==
    SpaceThenWord(SpaceRun(s, q), NameWord(s, q + SpaceRun(s, q)))

\* <<start, end>> of group 1 of
\* "(?i)Resume of\s+([A-Z][a-z]+(?:\s+[A-Z][a-z]+){1,2})" matched at p, or <<>>
FooterWords3(g, n1, n2, n3) == <<g, g + n1 + n2 + n3 - 1>>

FooterWords2(s, g, n1, n2) ==
    IF n2 = 0 THEN <<>>
    ELSE FooterWords3(g, n1, n2, NextNameWord(s, g + n1 + n2))

FooterWords1(s, g, n1) ==
    IF n1 = 0 THEN <<>> ELSE FooterWords2(s, g, n1, NextNameWord(s, g + n1))

FooterAfterSpace(s, p0, w) ==
    IF w = 0 THEN <<>> ELSE FooterWords1(s, p0 + w, NameWord(s, p0 + w))

FooterGroup(s, p) ==
    IF ~MatchesAt(s, p, "Resume of", TRUE) THEN <<>>
    ELSE FooterAfterSpace(s, p + Len("Resume of"),
                          SpaceRun(s, p + Len("Resume of")))

FooterName(s, g) == title(strip(SubSeq(s, g[1], g[2])))

LeftmostFooter(s, starts) ==
    IF starts = {} THEN None ELSE FooterName(s, FooterGroup(s, Least(starts)))

\* re.search: group 1 of the leftmost match, stripped and title-cased
FooterSearch(s) ==
    LeftmostFooter(s, {p \in 1..Len(s) : FooterGroup(s, p) # <<>>})

extract_candidate_name_from_footer(text) == FooterSearch(OrEmpty(text))

NAME_NOT_FOUND == "Name Not Found"

suspicious ==
    {"java", "python", "developer", "resume", "engineer", "servers",
     "experience", "summary"}

MaxGptNameWords == 5

\* the part of improved_extract_candidate_name after the wrapper has returned
improved_extract_candidate_name(name) ==
    IF \/ name = None
       \/ name = ""
       \/ WordCount(name) > MaxGptNameWords
       \/ \E w \in suspicious : Contains(lower(name), w)
       \/ Contains(name, "@")
       \/ MatchesAt(lower(name), 1, "name not found", FALSE)
    THEN NAME_NOT_FOUND
    ELSE title(strip(name))

\* the first two stages of extract_candidate_name; None sends it to the wrapper
\* a or b
Or(a, b) == IF a # None /\ a # "" THEN a ELSE b

ContentName(text) ==
    Or(extract_candidate_name_from_table(text),
       Or(extract_candidate_name_from_footer(text), None))

-----------------------------------------------------------------------------
(* Uploaded files and read_file                                            *)

RAISES == "<raises>"

PDF_MIME  == "application/pdf"
DOCX_MIME == "application/vnd.openxmlformats-officedocument.wordprocessingml.document"
DOC_MIME  == "application/msword"
TXT_MIME  == "text/plain"

\* An uploaded file: its name, the MIME type the browser sent, the text a reader
\* gets out of its bytes, and whether the bytes make a document reader raise.
File(name, type, text, damaged) ==
    [name |-> name, type |-> type, text |-> text, damaged |-> damaged]

\* no file in the uploader
NoFile == File("", "", "", FALSE)

endswith(s, suffix) == MatchesAt(s, Len(s) - Len(suffix) + 1, suffix, FALSE)

\* fitz.open raises on bytes that are no PDF
read_pdf(file) == IF file.damaged THEN RAISES ELSE file.text

\* docx.Document raises on bytes that are no DOCX package
read_docx(file) == IF file.damaged THEN RAISES ELSE file.text

\* without textract the empty string, else what textract.process gives
read_doc(file, has_textract) ==
    IF ~has_textract THEN ""
    ELSE IF file.damaged THEN RAISES ELSE file.text

\* dispatch on the MIME type or the extension; the last case decodes the bytes
\* as UTF-8 with errors="ignore", which cannot raise
read_file(file, has_textract) ==
    LET name == lower(file.name)
        mime == file.type
    IN  IF mime = PDF_MIME \/ endswith(name, ".pdf") THEN read_pdf(file)
        ELSE IF mime = DOCX_MIME \/ endswith(name, ".docx") THEN read_docx(file)
        ELSE IF mime = DOC_MIME \/ endswith(name, ".doc")
             THEN read_doc(file, has_textract)
        ELSE file.text

-----------------------------------------------------------------------------
(* Inputs: the files a user uploads and the replies of the service         *)

MaxBatch == 2

SampleResumes ==
    { File("a.txt", TXT_MIME, "Profile\nselenium sql linux", FALSE),
      File("b.pdf", PDF_MIME, "Candidate Name: jane doe\njane.doe@example.com", FALSE),
      File("c.doc", DOC_MIME, "", TRUE),
      File("d.pdf", PDF_MIME, "", TRUE),
      File("e.txt", TXT_MIME, "", FALSE) }

SampleJDs ==
    { File("jd.txt", TXT_MIME, "Senior QA Engineer, Selenium, SQL", FALSE),
      File("jd.docx", DOCX_MIME, "", TRUE) }

FileNames == {f.name : f \in SampleResumes}

Batches == UNION {[1..n -> SampleResumes] : n \in 0..MaxBatch}

\* What the service may answer to each kind of prompt when it answers.
ServiceReplies(purpose) ==
    IF purpose = "name"
    THEN {" jane doe\n", "Name Not Found", "Senior Java Developer"}
    ELSE {"Jane Doe\nScore: 82%\nReason: strong skill overlap",
          "Score: 150%", "Reason: weak match, no score given"}

-----------------------------------------------------------------------------
(* call_gpt_with_fallback                                                  *)

models == <<"gpt-4o", "gpt-4o-mini", "gpt-4o-mini">>

GPT_FAILED == "(!) GPT processing failed."

\* variant: time.sleep(1.5), the same wait after every attempt
FlatBackoff(attempt) == 15 * (0 + 1)

\* time.sleep(1.5 * (attempt + 1)), in tenths of a second
Backoff(attempt) == 15 * (attempt + 1)

\* variant: the function without its last line returns None
FallsOffTheEnd == None

\* what the function returns once the loop over the models has ended
ExhaustedReturn == GPT_FAILED

IdleCall ==
    [purpose |-> None, status |-> "idle", attempt |-> 0, tried |-> <<>>,
     slept |-> <<>>, ret |-> None]

StartCall(purpose) == [IdleCall EXCEPT !.purpose = purpose, !.status = "running"]

\* the attempt with models[attempt] returns text: return resp...content.strip()
AfterSuccess(g, text) ==
    [g EXCEPT !.tried = Append(@, models[g.attempt + 1]),
              !.status = "returned",
              !.ret = strip(text)]

\* the attempt raises: sleep, then the next model, or the end of the loop
AfterFailure(g) ==
    LET last == g.attempt + 1 = Len(models)
    IN  [g EXCEPT !.tried = Append(@, models[g.attempt + 1]),
                  !.slept = Append(@, Backoff(g.attempt)),
                  !.attempt = @ + 1,
                  !.status = IF last THEN "returned" ELSE "running",
                  !.ret = IF last THEN ExhaustedReturn ELSE @]

Exhausted(g) == g.status = "returned" /\ Len(g.slept) = Len(models)

-----------------------------------------------------------------------------
(* The script: session state, the run-matching loop, the rendering          *)

\* a score that is not set
NoScore == -1

\* the score parse has not run
Unparsed == [score |-> NoScore, tier |-> None]

NoLocals ==
    [resume_text |-> None, correct_name |-> None, correct_email |-> None,
     result |-> None, score |-> NoScore]

NoCalls == [n \in FileNames |-> 0]

BlankScreen == [banners |-> <<>>, keys |-> <<>>, error |-> None]

\* the script stopped on an uncaught exception before it rendered anything
AbortedScreen == [banners |-> <<>>, keys |-> <<>>, error |-> "Exception"]

\* the first entry whose follow-up key an earlier entry already has, or 0
FirstDuplicateKey(res) ==
    LeastOr({i \in 1..Len(res) :
                \E j \in 1..(i - 1) : res[j].correct_name = res[i].correct_name},
            0)

\* The rendering loop: per entry the tier banner, then the follow-up button
\* with key "followup_" + name; st.button raises on a key used before in the
\* run, which ends the script at that entry.
RenderUpTo(res, d) ==
    [banners |-> [i \in 1..(IF d = 0 THEN Len(res) ELSE d) |->
                    TierOf(res[i].score)],
     keys    |-> [i \in 1..(IF d = 0 THEN Len(res) ELSE d - 1) |->
                    "followup_" \o res[i].correct_name],
     error   |-> IF d = 0 THEN None ELSE "DuplicateWidgetID"]

Render(res) == RenderUpTo(res, FirstDuplicateKey(res))

\* variant: the loop without the guard of line 234
NeverProcessed(name, processed) == FALSE

\* if resume_file.name in st.session_state["processed_resumes"]: continue
AlreadyProcessed(name, processed) == name \in processed

\* run_disabled = not (jd_text and resume_files)
run_disabled(jd, files) == ~(jd # "" /\ files # <<>>)

\* if not run_disabled and st.session_state.get("run_clicked") is None
LoopRuns(jd, files, clicked) == ~run_disabled(jd, files) /\ clicked = None

\* One run of the script from its first line to the loop, or to its end when
\* the loop is not entered, given the session state and the uploaders' values
\* it starts with.
\* "Load JD once": what read_file gives when there is a file and no text yet
LoadJD(jf, jdt) ==
    IF jf # NoFile /\ jdt = "" THEN read_file(jf, HAS_TEXTRACT) ELSE jdt

\* t is LoadJD's result; RAISES ends the run at line 221
RunFrom(res, proc, summ, jdt, clicked, jf, rf, org, cls, t) ==
    /\ results' = res
    /\ processed_resumes' = proc
    /\ summary' = summ
    /\ jd_file' = jf
    /\ resume_files' = rf
    /\ origin' = org
    /\ calls' = cls
    /\ cur' = NoLocals
    /\ gpt' = IdleCall
    /\ IF t = RAISES
       THEN /\ jd_text' = jdt
            /\ run_clicked' = clicked
            /\ pc' = "idle"
            /\ idx' = 0
            /\ screen' = AbortedScreen
       ELSE IF LoopRuns(t, rf, clicked)
       THEN /\ jd_text' = t
            /\ run_clicked' = "True"
            /\ pc' = "loop"
            /\ idx' = 1
            /\ screen' = BlankScreen
       ELSE /\ jd_text' = t
            /\ run_clicked' = clicked
            /\ pc' = "idle"
            /\ idx' = 0
            /\ screen' = Render(res)

RunScript(res, proc, summ, jdt, clicked, jf, rf, org, cls) ==
    RunFrom(res, proc, summ, jdt, clicked, jf, rf, org, cls, LoadJD(jf, jdt))

Rerun(jf, rf) ==
    RunScript(results, processed_resumes, summary, jd_text, run_clicked,
              jf, rf, origin, calls)

(* What the user does between two runs of the script *)

UploadJD ==
    /\ pc = "idle"
    /\ \E f \in SampleJDs : Rerun(f, resume_files)
    /\ UNCHANGED <<HAS_TEXTRACT, raw, parsed>>

\* files are dropped on the resume uploader: they join the ones it holds
AddResumes ==
    /\ pc = "idle"
    /\ \E fs \in Batches :
          /\ fs # <<>>
          /\ Len(resume_files) + Len(fs) <= MaxBatch
          /\ Rerun(jd_file, resume_files \o fs)
    /\ UNCHANGED <<HAS_TEXTRACT, raw, parsed>>

Without(files, i) == SubSeq(files, 1, i - 1) \o SubSeq(files, i + 1, Len(files))

\* a file is taken off the resume uploader
RemoveResume ==
    /\ pc = "idle"
    /\ \E i \in 1..Len(resume_files) : Rerun(jd_file, Without(resume_files, i))
    /\ UNCHANGED <<HAS_TEXTRACT, raw, parsed>>

\* The "Run Matching" button: its value is not read, the click reruns the script.
ClickRunMatching ==
    /\ pc = "idle"
    /\ Rerun(jd_file, resume_files)
    /\ UNCHANGED <<HAS_TEXTRACT, raw, parsed>>

\* st.session_state.clear(); st.rerun().  The uploaders' values are widget
\* state: the rerun sees them emptied, or as the browser holds them.
StartNewSession ==
    /\ pc = "idle"
    /\ \E jf \in {jd_file, NoFile}, rf \in {resume_files, <<>>} :
          RunScript(<<>>, {}, <<>>, "", None, jf, rf, <<>>, NoCalls)
    /\ UNCHANGED <<HAS_TEXTRACT, raw, parsed>>

(* The loop  for resume_file in resume_files *)

AtFile == pc = "loop" /\ idx <= Len(resume_files)

resume_file == resume_files[idx]

\* the loop is over: the script goes on to render the results
LoopDone ==
    /\ pc = "loop"
    /\ idx > Len(resume_files)
    /\ pc' = "idle"
    /\ idx' = 0
    /\ cur' = NoLocals
    /\ screen' = Render(results)
    /\ UNCHANGED <<HAS_TEXTRACT, results, processed_resumes, summary, jd_text,
                   run_clicked, jd_file, resume_files, gpt, origin, calls,
                   raw, parsed>>

SkipProcessed ==
    /\ AtFile
    /\ AlreadyProcessed(resume_file.name, processed_resumes)
    /\ idx' = idx + 1
    /\ UNCHANGED <<HAS_TEXTRACT, results, processed_resumes, summary, jd_text,
                   run_clicked, jd_file, resume_files, pc, cur, gpt, screen,
                   origin, calls, raw, parsed>>

\* read_file raises: nothing catches it, the script run ends at line 237
ReadRaises ==
    /\ AtFile
    /\ ~AlreadyProcessed(resume_file.name, processed_resumes)
    /\ read_file(resume_file, HAS_TEXTRACT) = RAISES
    /\ pc' = "idle"
    /\ idx' = 0
    /\ cur' = NoLocals
    /\ screen' = AbortedScreen
    /\ UNCHANGED <<HAS_TEXTRACT, results, processed_resumes, summary, jd_text,
                   run_clicked, jd_file, resume_files, gpt, origin, calls,
                   raw, parsed>>

\* if not resume_text: continue
ReadEmpty ==
    /\ AtFile
    /\ ~AlreadyProcessed(resume_file.name, processed_resumes)
    /\ read_file(resume_file, HAS_TEXTRACT) = ""
    /\ cur' = [cur EXCEPT !.resume_text = ""]
    /\ idx' = idx + 1
    /\ UNCHANGED <<HAS_TEXTRACT, results, processed_resumes, summary, jd_text,
                   run_clicked, jd_file, resume_files, pc, gpt, screen,
                   origin, calls, raw, parsed>>

Readable(file, has_textract) ==
    read_file(file, has_textract) \notin {RAISES, ""}

WithContentName(text, name) ==
    /\ name # None
    /\ cur' = [cur EXCEPT !.resume_text = text,
                          !.correct_name = name,
                          !.correct_email = extract_email(text)]

WithoutContentName(text, name) ==
    /\ name = None
    /\ cur' = [cur EXCEPT !.resume_text = text]

\* extract_candidate_name ends in its first or second stage; extract_email;
\* compare_resume calls the wrapper
NameFromContent ==
    /\ AtFile
    /\ ~AlreadyProcessed(resume_file.name, processed_resumes)
    /\ Readable(resume_file, HAS_TEXTRACT)
    /\ WithContentName(read_file(resume_file, HAS_TEXTRACT),
                       ContentName(read_file(resume_file, HAS_TEXTRACT)))
    /\ pc' = "compare"
    /\ gpt' = StartCall("compare")
    /\ calls' = [calls EXCEPT ![resume_file.name] = @ + 1]
    /\ UNCHANGED <<HAS_TEXTRACT, results, processed_resumes, summary, jd_text,
                   run_clicked, jd_file, resume_files, idx, screen, origin,
                   raw, parsed>>

\* extract_candidate_name reaches improved_extract_candidate_name, which calls
\* the wrapper
NameFromGpt ==
    /\ AtFile
    /\ ~AlreadyProcessed(resume_file.name, processed_resumes)
    /\ Readable(resume_file, HAS_TEXTRACT)
    /\ WithoutContentName(read_file(resume_file, HAS_TEXTRACT),
                          ContentName(read_file(resume_file, HAS_TEXTRACT)))
    /\ pc' = "name"
    /\ gpt' = StartCall("name")
    /\ calls' = [calls EXCEPT ![resume_file.name] = @ + 1]
    /\ UNCHANGED <<HAS_TEXTRACT, results, processed_resumes, summary, jd_text,
                   run_clicked, jd_file, resume_files, idx, screen, origin,
                   raw, parsed>>

\* the wrapper returns into improved_extract_candidate_name; extract_email;
\* compare_resume calls the wrapper
NameReturned ==
    /\ pc = "name"
    /\ gpt.status = "returned"
    /\ cur' = [cur EXCEPT
                 !.correct_name = improved_extract_candidate_name(gpt.ret),
                 !.correct_email = extract_email(cur.resume_text)]
    /\ pc' = "compare"
    /\ gpt' = StartCall("compare")
    /\ calls' = [calls EXCEPT ![resume_file.name] = @ + 1]
    /\ UNCHANGED <<HAS_TEXTRACT, results, processed_resumes, summary, jd_text,
                   run_clicked, jd_file, resume_files, idx, screen, origin,
                   raw, parsed>>

\* the entry appended to st.session_state["results"]
Entry(l) ==
    [correct_name |-> l.correct_name, email |-> l.correct_email,
     score |-> l.score, result |-> l.result, resume_text |-> l.resume_text]

\* the row appended to st.session_state["summary"]
SummaryRow(l) ==
    [Candidate_Name |-> l.correct_name, Email |-> l.correct_email,
     Score |-> l.score]

AppendEntry(l) ==
    /\ cur' = l
    /\ results' = Append(results, Entry(l))
    /\ summary' = Append(summary, SummaryRow(l))

\* the wrapper returns into compare_resume: the score is parsed, the entry and
\* the summary row are appended, the file name joins the processed set
CompareReturned ==
    /\ pc = "compare"
    /\ gpt.status = "returned"
    /\ AppendEntry([cur EXCEPT !.result = gpt.ret, !.score = ScoreOf(gpt.ret)])
    /\ processed_resumes' = processed_resumes \cup {resume_file.name}
    /\ origin' = Append(origin, resume_file.name)
    /\ gpt' = IdleCall
    /\ idx' = idx + 1
    /\ pc' = "loop"
    /\ UNCHANGED <<HAS_TEXTRACT, jd_text, run_clicked, jd_file, resume_files,
                   screen, calls, raw, parsed>>

(* The service answers the running call, or fails it *)

AttemptSucceeds ==
    /\ gpt.status = "running"
    /\ \E text \in ServiceReplies(gpt.purpose) : gpt' = AfterSuccess(gpt, text)
    /\ UNCHANGED <<HAS_TEXTRACT, results, processed_resumes, summary, jd_text,
                   run_clicked, jd_file, resume_files, pc, idx, cur, screen,
                   origin, calls, raw, parsed>>

AttemptFails ==
    /\ gpt.status = "running"
    /\ gpt' = AfterFailure(gpt)
    /\ UNCHANGED <<HAS_TEXTRACT, results, processed_resumes, summary, jd_text,
                   run_clicked, jd_file, resume_files, pc, idx, cur, screen,
                   origin, calls, raw, parsed>>

Init ==
    /\ HAS_TEXTRACT \in BOOLEAN
    /\ results = <<>>
    /\ processed_resumes = {}
    /\ summary = <<>>
    /\ jd_text = ""
    /\ run_clicked = None
    /\ jd_file = NoFile
    /\ resume_files = <<>>
    /\ pc = "idle"
    /\ idx = 0
    /\ cur = NoLocals
    /\ gpt = IdleCall
    /\ screen = BlankScreen
    /\ origin = <<>>
    /\ calls = NoCalls
    /\ raw = ""
    /\ parsed = Unparsed

Next ==
    \/ UploadJD
    \/ AddResumes
    \/ RemoveResume
    \/ ClickRunMatching
    \/ StartNewSession
    \/ LoopDone
    \/ SkipProcessed
    \/ ReadRaises
    \/ ReadEmpty
    \/ NameFromContent
    \/ NameFromGpt
    \/ NameReturned
    \/ CompareReturned
    \/ AttemptSucceeds
    \/ AttemptFails

Spec == Init /\ [][Next]_vars


\* every call of the wrapper ends: an attempt returns or raises, and the loop
\* over the models goes on
FairSpec == Spec /\ WF_vars(AttemptSucceeds \/ AttemptFails)

-----------------------------------------------------------------------------
(* The score parse alone, on raw model texts                               *)

MaxPad == 2

PadUnits == {"Score: 10%", "score", "x", " ", "9"}

RECURSIVE Pads(_)
Pads(n) ==
    IF n = 0 THEN {""} ELSE Pads(n - 1) \cup {p \o u : p \in Pads(n - 1), u \in PadUnits}

\* the numbers of the score tokens that are put among other text
CoreNumbers == {"57", "150", "7", "049"}

DigitStrings(n) ==
    UNION {{a \o b \o c : a \in (IF n >= 3 THEN Digits ELSE {""}),
                          b \in (IF n >= 2 THEN Digits ELSE {""}),
                          c \in Digits}}

AllNumbers == DigitStrings(1) \cup DigitStrings(2) \cup DigitStrings(ScoreDigits)

ScoreToken(n) == "Score: " \o n \o "%"

RawTexts ==
    {pre \o ScoreToken(n) \o suf : pre \in Pads(MaxPad), n \in CoreNumbers,
                                   suf \in Pads(MaxPad)}
    \cup {pre \o suf : pre \in Pads(MaxPad), suf \in Pads(MaxPad)}
    \cup {ScoreToken(n) : n \in AllNumbers}

ScoreInit ==
    /\ HAS_TEXTRACT = FALSE
    /\ results = <<>>
    /\ processed_resumes = {}
    /\ summary = <<>>
    /\ jd_text = ""
    /\ run_clicked = None
    /\ jd_file = NoFile
    /\ resume_files = <<>>
    /\ pc = "idle"
    /\ idx = 0
    /\ cur = NoLocals
    /\ gpt = IdleCall
    /\ screen = BlankScreen
    /\ origin = <<>>
    /\ calls = NoCalls
    /\ raw \in RawTexts
    /\ parsed = Unparsed

\* the score of the raw text and the banner the rendering shows for it
Parsed(score) == [score |-> score, tier |-> TierOf(score)]

ParseScore ==
    /\ parsed = Unparsed
    /\ parsed' = Parsed(ScoreOf(raw))
    /\ UNCHANGED <<raw, appVars>>

SpecScore == ScoreInit /\ [][ParseScore]_vars


-----------------------------------------------------------------------------
(* Properties of the session, under Spec                                   *)

\* C1: per-document isolation.  Whenever the loop over the batch ends, every
\* submitted document has a record in results: an empty text, a reader that
\* raises or a failing service degrade the document's record and never keep
\* it, or a document after it, from getting one.
PerDocumentIsolation ==
    [][(pc = "loop" /\ pc' = "idle") =>
          \A i \in 1..Len(resume_files) :
             \E j \in 1..Len(origin') : origin'[j] = resume_files[i].name]_vars

\* C2: submitting again a file name that is in the processed set is a no-op
\* for it: no step adds a record or a summary row for it, changes an existing
\* record or calls the service for it; so results always holds exactly one
\* record per name of the processed set.
ResubmissionIsNoOp ==
    /\ [](/\ Len(results) = Cardinality(processed_resumes)
          /\ Len(summary) = Len(results)
          /\ Len(origin) = Len(results)
          /\ {origin[j] : j \in 1..Len(origin)} = processed_resumes)
    /\ [][\A n \in processed_resumes \cap processed_resumes' :
             /\ calls'[n] = calls[n]
             /\ Len(results') >= Len(results)
             /\ \A j \in 1..Len(results) :
                    results'[j] = results[j] /\ summary'[j] = summary[j]
             /\ \A j \in (Len(origin) + 1)..Len(origin') : origin'[j] # n]_vars

\* C2's case: the second of two files of one name has been passed over
ResubmissionSkipped ==
    /\ pc = "loop"
    /\ idx = 3
    /\ resume_files[1].name = resume_files[2].name
    /\ Len(results) = 1
    /\ calls[resume_files[1].name] > 0

\* C3: incremental processing.  A script run of a session that has processed
\* documents, started with uploaded resumes whose names are not in the
\* processed set, enters the loop, which gives each of them a record.
NewDocumentsProcessed ==
    [][(/\ pc = "idle"
        /\ processed_resumes # {}
        /\ processed_resumes' = processed_resumes
        /\ jd_text' # ""
        /\ \E i \in 1..Len(resume_files') :
              /\ resume_files'[i].name \notin processed_resumes
              /\ Readable(resume_files'[i], HAS_TEXTRACT))
       => pc' = "loop"]_vars

\* C4: when the service fails on every model, the wrapper returns the failure
\* marker and does not raise; the record built from it has score 0, tier
\* Reject and the marker as its text, and the loop goes on with the next file.
ExhaustionDegrades ==
    [][/\ (gpt.status = "running" /\ Len(gpt'.slept) = Len(models))
            => gpt'.status = "returned" /\ gpt'.ret = GPT_FAILED
       /\ (pc = "compare" /\ Exhausted(gpt))
            => /\ pc' = "loop"
               /\ idx' = idx + 1
               /\ screen' = screen
               /\ Len(results') = Len(results) + 1
               /\ results'[Len(results')].result = GPT_FAILED
               /\ results'[Len(results')].score = 0
               /\ TierOf(results'[Len(results')].score) = "Reject"
               /\ summary'[Len(summary')].Score = 0]_vars

\* C4's case: the record of a document whose comparison failed on every model
ExhaustionRecorded ==
    /\ pc = "loop"
    /\ idx > 1
    /\ Len(results) > 0
    /\ results[Len(results)].result = GPT_FAILED
    /\ results[Len(results)].score = 0

\* C5: when no content strategy yields a name and the service has failed on
\* every model, the name the cascade returns is the sentinel "Name Not Found"
\* or a name derived from the file name (the file name, its stem, or the stem
\* in title case), never any other text.
NameFallsBack ==
    [][(pc = "name" /\ Exhausted(gpt)) =>
          LET name == resume_file.name
              stem == SubSeq(name, 1, Len(name) - 4)
          IN  cur'.correct_name \in {NAME_NOT_FOUND, name, stem, title(stem)}]_vars

\* C6: every record's and every summary row's score is an integer in 0..100;
\* the text "Score: 150%" is recorded with 100, a text that does not hold the
\* word "score" with 0.
ScoresInRange ==
    /\ \A i \in 1..Len(results) :
          /\ results[i].score \in 0..100
          /\ results[i].result = "Score: 150%" => results[i].score = 100
          /\ ~Contains(lower(OrEmpty(results[i].result)), "score")
                => results[i].score = 0
    /\ \A i \in 1..Len(summary) :
          /\ summary[i].Score \in 0..100
          /\ summary[i].Score = results[i].score

\* C6's case: a record whose text gave 150
ClampedRecord ==
    \E i \in 1..Len(results) :
       /\ results[i].result = "Score: 150%"
       /\ results[i].score = 100
       /\ summary[i].Score = 100

\* C10: the keys of the follow-up buttons, "followup_" + the record's name, are
\* pairwise distinct: no two records carry the same name, and the rendering
\* never stops on a key used twice.
FollowupKeysDistinct ==
    /\ \A i, j \in 1..Len(results) :
          i # j => results[i].correct_name # results[j].correct_name
    /\ screen.error # "DuplicateWidgetID"

-----------------------------------------------------------------------------
(* The wrapper, under FairSpec                                             *)

\* C9: a call of the wrapper makes at most three attempts, in the order of
\* models (gpt-4o first, then gpt-4o-mini); it returns the stripped text of the
\* first attempt that succeeds and tries no model after it; it sleeps after
\* each failed attempt, longer each time; and it ends, with a reply or with
\* the failure marker.
WrapperBehaviour ==
    /\ [](/\ Len(gpt.tried) <= 3
          /\ gpt.tried = SubSeq(<<"gpt-4o", "gpt-4o-mini", "gpt-4o-mini">>,
                                1, Len(gpt.tried))
          /\ \A i \in 1..Len(gpt.slept) :
                /\ gpt.slept[i] > 0
                /\ i > 1 => gpt.slept[i] > gpt.slept[i - 1]
          /\ gpt.status = "running" =>
                Len(gpt.slept) = Len(gpt.tried) /\ Len(gpt.tried) < 3
          /\ gpt.status = "returned" =>
                \/ /\ Len(gpt.slept) = Len(gpt.tried) - 1
                   /\ \E t \in ServiceReplies(gpt.purpose) : gpt.ret = strip(t)
                \/ /\ Len(gpt.slept) = 3
                   /\ Len(gpt.tried) = 3
                   /\ gpt.ret = GPT_FAILED)
    /\ [][/\ gpt.status = "returned" =>
                gpt'.tried = gpt.tried \/ gpt'.tried = <<>>
          /\ gpt.status = "running" =>
                Len(gpt'.tried) \in {Len(gpt.tried), Len(gpt.tried) + 1}]_vars
    /\ (gpt.status = "running") ~> (gpt.status = "returned")

\* C9's case: the first model failed and the second one answered
SecondModelAnswered ==
    /\ gpt.status = "returned"
    /\ gpt.tried = <<"gpt-4o", "gpt-4o-mini">>
    /\ Len(gpt.slept) = 1
    /\ gpt.ret # GPT_FAILED


-----------------------------------------------------------------------------
(* The score parse, under SpecScore                                        *)

\* C7 as stated: a raw text that holds "Score: N%", N of one to three digits,
\* parses to min(N, 100), and "Score: 57%" to (57, Caution), wherever the
\* token stands in the text and whatever else the text holds.
ScoreTokenAnywhere ==
    parsed # Unparsed =>
       \A p \in 1..Len(raw) :
          LET d == Run(raw, p + 7, Digits)
              n == SubSeq(raw, p + 7, p + 6 + d)
          IN  (/\ MatchesAt(raw, p, "Score: ", FALSE)
               /\ d \in 1..3
               /\ p + 7 + d <= Len(raw)
               /\ CharAt(raw, p + 7 + d) = "%")
              => /\ parsed.score = Min(int(n), 100)
                 /\ n = "57" => parsed = [score |-> 57, tier |-> "Caution"]

\* C7 with its condition: a raw text that holds "Score: N%", N of one to three
\* digits, parses to min(N, 100), and "Score: 57%" to (57, Caution), when the
\* token's "Score" is the first "score" of the text in any case and no letter,
\* digit or underscore stands right before it, whatever follows the token.
FirstScoreTokenDecides ==
    parsed # Unparsed =>
       \A p \in 1..Len(raw) :
          LET d == Run(raw, p + 7, Digits)
              n == SubSeq(raw, p + 7, p + 6 + d)
          IN  (/\ MatchesAt(raw, p, "Score: ", FALSE)
               /\ d \in 1..3
               /\ p + 7 + d <= Len(raw)
               /\ CharAt(raw, p + 7 + d) = "%"
               /\ p = 1 \/ ~IsWordChar(CharAt(raw, p - 1))
               /\ \A q \in 1..(p - 1) : ~MatchesAt(raw, q, "score", TRUE))
              => /\ parsed.score = Min(int(n), 100)
                 /\ n = "57" => parsed = [score |-> 57, tier |-> "Caution"]

\* C7's case: the token between other text, parsed
PaddedTokenParsed ==
    /\ raw = "x Score: 57%9"
    /\ parsed = [score |-> 57, tier |-> "Caution"]

\* C8: the tier is a total function of the score with fixed thresholds: below
\* 50 Reject, from 50 and below 70 Caution, from 70 Strong; every score of
\* 0..100 has exactly one tier (49 Reject, 50 Caution, 69 Caution, 70 Strong);
\* a text without a score token gives (0, Reject).
TierThresholds ==
    parsed # Unparsed =>
       /\ parsed.score \in 0..100
       /\ parsed.tier \in {"Reject", "Caution", "Strong"}
       /\ parsed.tier = "Reject" <=> parsed.score < 50
       /\ parsed.tier = "Caution" <=> (50 <= parsed.score /\ parsed.score < 70)
       /\ parsed.tier = "Strong" <=> parsed.score >= 70
       /\ raw = "Score: 49%" => parsed = [score |-> 49, tier |-> "Reject"]
       /\ raw = "Score: 50%" => parsed = [score |-> 50, tier |-> "Caution"]
       /\ raw = "Score: 69%" => parsed = [score |-> 69, tier |-> "Caution"]
       /\ raw = "Score: 70%" => parsed = [score |-> 70, tier |-> "Strong"]
       /\ (~Contains(lower(raw), "score") \/ ~Contains(raw, "%"))
             => parsed = [score |-> 0, tier |-> "Reject"]

\* C8's case: the highest score of the middle tier
CautionAt69 ==
    /\ raw = "Score: 69%"
    /\ parsed = [score |-> 69, tier |-> "Caution"]

====
